---- MODULE Spec2Model ----
(***************************************************************************)
(* Model of the orchestration layer of the repository:                     *)
(*   - process_batch_parallel_with_retry (src/models.py), the bounded      *)
(*     concurrency dispatcher with retry and fallback;                     *)
(*   - search_vectors (src/subproject_database_retriever/vector_search.py),*)
(*     the multi-query search and merge.                                   *)
(* Spec is one call of the dispatcher, for every task count, concurrency   *)
(* limit, retry count and executor names within the bounds; a step is what *)
(* one coroutine does between two awaits.  SpecSearch is one call of       *)
(* search_vectors, entered with each state process_query can hand it (a    *)
(* first pass, or a refinement pass that carries the chunks of the pass    *)
(* before); a step is what it does between two remote calls.               *)
(* SpecMerge is the merge of search_vectors applied to given result lists  *)
(* in every processing order.  SpecParse is the parse loop of expand_query *)
(* (query_processing.py) over every response built from up to MaxItems     *)
(* items; a step is one line.  SpecGraph is one run of run_retrieval       *)
(* (retrieval_orchestrator.py) through process_query, search_vectors and   *)
(* generate_answer; a step is one node run to its return or its exception. *)
(* SpecFair and SpecGraphFair are the dispatcher and the graph under weak   *)
(* fairness of their steps, for the termination properties.  SpecParseCase *)
(* is the parse loop over responses whose markers are written in any case. *)
(* SpecAnswer is generate_answer entered with up to MaxChunks chunks.      *)
(* SpecIndex is a sequence of calls of get_pinecone_index.                 *)
(* Python values are encoded as records: None is PyNone, a string is       *)
(* Str(<<token, ...>>), a sequence of tokens in which " " is a whitespace  *)
(* character and any other token stands for non-whitespace text.           *)
(* Positions are 1-based: task i of the model is enumerate index i-1.      *)
(***************************************************************************)
EXTENDS Integers, Sequences, FiniteSets, TLC

\* ------------------------------------------------------------------ bounds
MaxTasks == 3
MaxConcurrent == 2
MaxRetries == 2
MaxVariations == 1
MaxMatches == 2
MaxItems == 3
MaxIndexCalls == 5
MaxChunks == 16
MaxFairTasks == 2

\* subproject_database_retriever/config.py; scores are in hundredths (0.45 is 45)
DEFAULT_TOP_K == 10
MAX_ITERATIONS == 3
SIMILARITY_THRESHOLD == 45
MAX_CHUNKS_FOR_ANSWER == 15

\* ------------------------------------------------------------ Python values
PyNone == [none |-> TRUE]
Str(tokens) == [str |-> tokens]

RECURSIVE LStrip(_)
LStrip(s) == IF s # <<>> /\ Head(s) = " " THEN LStrip(Tail(s)) ELSE s

RECURSIVE RStrip(_)
RStrip(s) == IF s # <<>> /\ s[Len(s)] = " " THEN RStrip(SubSeq(s, 1, Len(s) - 1)) ELSE s

\* str.strip()
strip(v) == Str(RStrip(LStrip(v.str)))

NonBlankTruthy(result) == result # PyNone /\ result.str # <<>>

\* `result and len(result.strip()) > 0`
NonBlank(result) ==
    /\ result # PyNone
    /\ result.str # <<>>
    /\ Len(strip(result).str) > 0

\* ----------------------------------------------------------------- inputs
model_map == {"gpt5", "gpt51", "gpt5_mini", "claude_opus", "claude_sonnet", "claude_haiku"}

\* the executor names a call is made with: known names (distinct and equal
\* primary/fallback) and a name that is not a key of model_map
ModelNames == {"gpt5", "claude_sonnet", "gpt4"}

\* the request payload submitted at position i
Payload(i) == <<"m1", "m2", "m3", "m4", "m5">>[i]

\* what a remote executor can do with one call: return a text for the
\* request, return a blank (None, empty, whitespace only), or raise
Returns(name, payload) ==
    { [ret |-> Str(<<name, payload>>)],
      [ret |-> Str(<<" ", name, payload>>)],
      [ret |-> PyNone],
      [ret |-> Str(<<>>)],
      [ret |-> Str(<<" ", " ">>)],
      [exc |-> "APIError"] }

IsRaise(r) == "exc" \in DOMAIN r

VARIABLES
    dpc,            \* position of process_batch_parallel_with_retry
    messages_list,  \* the submitted payloads
    model_func,     \* primary executor name
    fallback_model, \* fallback executor name
    max_concurrent, \* concurrency limit
    max_retries,    \* retry count
    semaphore,      \* value of asyncio.Semaphore(max_concurrent)
    waiters,        \* tasks queued on the semaphore, in arrival order
    task,           \* per task: position, loop variable, last_error, return value, call log
    overtaken,      \* history: some task finished before an earlier-submitted one
    raised,         \* the exception that left the dispatcher, or PyNone
    summary,        \* the printed outcome counts
    returned        \* the list returned to the caller

VARIABLES
    node,            \* the graph node the retrieval run is at
    state,           \* the RetrieverState passed from node to node
    all_queries,     \* search_vectors: the queries of the pass
    all_matches,     \* search_vectors: id -> chunk_data, in insertion order
    qi,              \* search_vectors: the loop variable i
    index_returned   \* history: the (id, score) pairs the index returned during the pass

VARIABLES
    max_iterations,  \* the MAX_ITERATIONS the run is configured with
    trace,           \* history: the graph nodes entered, in order
    remote,          \* history: the remote calls of the run and how each ended
    fault            \* the exception that left run_retrieval, or PyNone

VARIABLES
    parser,          \* expand_query: the response lines and the locals of the parse loop
    merger           \* the merge of search_vectors applied to given result lists

svars == <<node, state, all_queries, all_matches, qi, index_returned>>

gvars == <<max_iterations, trace, remote, fault>>

VARIABLES
    pinecone_index,  \* vector_search.py: the module global _pinecone_index
    index_log,       \* history: the get_pinecone_index calls of the process
    entered_with     \* history: the state the search pass was entered with

pvars == <<parser, merger>>

ivars == <<pinecone_index, index_log, entered_with>>

dvars == <<dpc, messages_list, model_func, fallback_model, max_concurrent, max_retries,
           semaphore, waiters, task, overtaken, raised, summary, returned>>

vars == <<dvars, svars, gvars, pvars, ivars>>

Tasks == 1 .. Len(messages_list)

NoSummary == [success_primary |-> 0, success_fallback |-> 0, failed |-> 0]

NewTask == [pc |-> "created", attempt |-> 0, last_error |-> PyNone, ret |-> PyNone, log |-> <<>>]

\* expand_query is not running, and no merge is being computed
NoParse == [pc |-> "none"]

NoMerge == [pc |-> "none"]

\* no retrieval run
NoRetrieval ==
    /\ node = "none"
    /\ state = <<>>
    /\ all_queries = <<>>
    /\ all_matches = <<>>
    /\ qi = 0
    /\ index_returned = {}
    /\ trace = <<>>
    /\ remote = <<>>
    /\ fault = PyNone
    /\ pinecone_index = PyNone
    /\ index_log = <<>>
    /\ entered_with = <<>>

Init ==
    /\ NoRetrieval
    /\ max_iterations = MAX_ITERATIONS
    /\ parser = NoParse
    /\ merger = NoMerge
    /\ dpc = "called"
    /\ \E n \in 0 .. MaxTasks : messages_list = [i \in 1 .. n |-> Payload(i)]
    /\ model_func \in ModelNames
    /\ fallback_model \in ModelNames \ {"gpt5"}
    /\ max_concurrent \in 1 .. MaxConcurrent
    /\ max_retries \in 0 .. MaxRetries
    /\ semaphore = 0
    /\ waiters = <<>>
    /\ task = [i \in Tasks |-> NewTask]
    /\ overtaken = FALSE
    /\ raised = PyNone
    /\ summary = NoSummary
    /\ returned = <<>>

\* ------------------------------------------------- process_single_with_retry

PrimaryAttemptsTwoMore == max_retries + 2

\* range(max_retries): the number of iterations of the primary loop
PrimaryAttempts == max_retries

\* `await primary_func(...)` is entered: one more remote call in flight
CallPrimary(t, attempt) ==
    [t EXCEPT !.pc = "primary", !.attempt = attempt,
              !.log = Append(t.log, [by |-> "primary", out |-> "pending"])]

\* `await fallback_func(...)` is entered
CallFallback(t) ==
    [t EXCEPT !.pc = "fallback",
              !.log = Append(t.log, [by |-> "fallback", out |-> "pending"])]

LoopNextBreaks(t, attempt) ==
    IF attempt = 0 /\ attempt < PrimaryAttempts THEN CallPrimary(t, attempt) ELSE CallFallback(t)

\* the for statement takes its next value, or the loop is left for the fallback
LoopNext(t, attempt) ==
    IF attempt < PrimaryAttempts THEN CallPrimary(t, attempt) ELSE CallFallback(t)

\* the semaphore was acquired: last_error = None and the loop is entered
EnterSemaphore(t) == LoopNext([t EXCEPT !.last_error = PyNone], 0)

\* the outcome of the call in flight is recorded in the call log: "ok" or
\* "failed" for a primary call (the kind of its failure is in last_error), and
\* "ok", "blank" or "error" for the fallback call
Logged(t, r) ==
    LET ok == ~IsRaise(r) /\ NonBlank(r.ret)
        out == IF ok THEN "ok"
               ELSE IF t.pc = "primary" THEN "failed"
               ELSE IF IsRaise(r) THEN "error" ELSE "blank"
    IN  [t EXCEPT !.log[Len(t.log)].out = out]

\* the 4-tuple a task returns: r[0], r[1], r[2], r[3] of the source are the
\* fields idx, result, error, model
Tuple(idx, result, error, model) ==
    [idx |-> idx, result |-> result, error |-> error, model |-> model]

\* return (idx, result, None, model_func)
PrimarySuccess(idx, result) == Tuple(idx, result, PyNone, Str(<<model_func>>))

FallbackSuccessAsPrimary(idx, result) == Tuple(idx, result, PyNone, Str(<<model_func>>))

\* return (idx, result, None, fallback_model)
FallbackSuccess(idx, result) == Tuple(idx, result, PyNone, Str(<<fallback_model>>))

FallbackEmptyNoReason(idx, result) == Tuple(idx, PyNone, PyNone, PyNone)

\* return (idx, None, "Fallback also returned empty", None)
FallbackEmpty(idx, result) ==
    Tuple(idx, PyNone, Str(<<"Fallback also returned empty">>), PyNone)

\* an exception that leaves the coroutine instead of a return value
Escaped(e) == [escaped |-> e]
IsEscaped(v) == "escaped" \in DOMAIN v

PrimaryExceptionEscapes(t, e) == Escaped(e)

\* except Exception as e: last_error = str(e); the loop goes on
PrimaryException(t, e) == [t EXCEPT !.last_error = Str(<<e>>)]

FallbackExceptionEscapes(idx, e) == Escaped(e)

\* except Exception as e: return (idx, None, f"Fallback failed: {e}", None)
FallbackException(idx, e) == Tuple(idx, PyNone, Str(<<"Fallback failed: ", e>>), PyNone)

SemaphoreNeverLocked == FALSE

\* the semaphore has no free slot
SemaphoreLocked == semaphore <= 0

\* asyncio.gather(*tasks), first step of every task: in submission order each
\* task either acquires the semaphore and enters its first remote call, or
\* queues on the semaphore
RECURSIVE StartAll(_, _)
StartAll(i, st) ==
    IF i > Len(messages_list) THEN st
    ELSE IF st.semaphore > 0
         THEN StartAll(i + 1, [st EXCEPT !.semaphore = st.semaphore - 1,
                                          !.task[i] = EnterSemaphore(st.task[i])])
         ELSE StartAll(i + 1, [st EXCEPT !.waiters = Append(st.waiters, i),
                                          !.task[i].pc = "waiting"])

\* lines 468-471: an unknown executor name raises ValueError
RaiseUnknownModel ==
    /\ dpc = "called"
    /\ model_func \notin model_map \/ fallback_model \notin model_map
    /\ dpc' = "raised"
    /\ raised' = IF model_func \notin model_map
                 THEN Str(<<"ValueError", "Unknown model: ", model_func>>)
                 ELSE Str(<<"ValueError", "Unknown fallback model: ", fallback_model>>)
    /\ UNCHANGED <<messages_list, model_func, fallback_model, max_concurrent, max_retries,
                   semaphore, waiters, task, overtaken, summary, returned,
                   svars, gvars, pvars, ivars>>

\* lines 473-513: the semaphore is created and the tasks are started
Gather ==
    /\ dpc = "called"
    /\ model_func \in model_map
    /\ fallback_model \in model_map
    /\ LET st == StartAll(1, [semaphore |-> max_concurrent, waiters |-> <<>>, task |-> task])
       IN  /\ semaphore' = st.semaphore
           /\ waiters' = st.waiters
           /\ task' = st.task
    /\ dpc' = "gathering"
    /\ UNCHANGED <<messages_list, model_func, fallback_model, max_concurrent, max_retries,
                   overtaken, raised, summary, returned,
                   svars, gvars, pvars, ivars>>

\* a queued task is woken with a free slot and enters the loop
Acquire(i) ==
    /\ dpc = "gathering"
    /\ waiters # <<>>
    /\ Head(waiters) = i
    /\ ~SemaphoreLocked
    /\ semaphore' = semaphore - 1
    /\ waiters' = Tail(waiters)
    /\ task' = [task EXCEPT ![i] = EnterSemaphore(task[i])]
    /\ UNCHANGED <<dpc, messages_list, model_func, fallback_model, max_concurrent,
                   max_retries, overtaken, raised, summary, returned,
                   svars, gvars, pvars, ivars>>

LeaveKeepsSlot(i, t, v) ==
    /\ task' = [task EXCEPT ![i] = [t EXCEPT !.pc = "done", !.ret = v, !.attempt = 0,
                                               !.last_error = PyNone]]
    /\ semaphore' = semaphore
    /\ overtaken' = (overtaken \/ \E j \in 1 .. i - 1 : task[j].pc # "done")
    /\ IF IsEscaped(v)
       THEN dpc' = "raised" /\ raised' = Str(<<v.escaped>>)
       ELSE UNCHANGED <<dpc, raised>>
    /\ UNCHANGED <<messages_list, model_func, fallback_model, max_concurrent, max_retries,
                   waiters, summary, returned,
                   svars, gvars, pvars, ivars>>

\* task i leaves process_single_with_retry with value v: its locals are gone,
\* `async with` releases the semaphore; an exception leaving the coroutine
\* leaves gather too
Leave(i, t, v) ==
    /\ task' = [task EXCEPT ![i] = [t EXCEPT !.pc = "done", !.ret = v, !.attempt = 0,
                                               !.last_error = PyNone]]
    /\ semaphore' = semaphore + 1
    /\ overtaken' = (overtaken \/ \E j \in 1 .. i - 1 : task[j].pc # "done")
    /\ IF IsEscaped(v)
       THEN dpc' = "raised" /\ raised' = Str(<<v.escaped>>)
       ELSE UNCHANGED <<dpc, raised>>
    /\ UNCHANGED <<messages_list, model_func, fallback_model, max_concurrent, max_retries,
                   waiters, summary, returned,
                   svars, gvars, pvars, ivars>>

\* the task goes on inside the semaphore
Continue(i, t) ==
    /\ task' = [task EXCEPT ![i] = t]
    /\ UNCHANGED <<dpc, messages_list, model_func, fallback_model, max_concurrent,
                   max_retries, semaphore, waiters, overtaken, raised, summary, returned,
                   svars, gvars, pvars, ivars>>

\* lines 483-496: the primary call of task i ends with r
PrimaryReturn(i) ==
    /\ dpc = "gathering"
    /\ task[i].pc = "primary"
    /\ \E r \in Returns(model_func, messages_list[i]) :
         LET t == Logged(task[i], r)
             failed == IF IsRaise(r) THEN PrimaryException(t, r.exc)
                       ELSE [t EXCEPT !.last_error = Str(<<"Empty response">>)]
         IN  IF ~IsRaise(r) /\ NonBlank(r.ret)
             THEN Leave(i, t, PrimarySuccess(i, r.ret))
             ELSE IF IsEscaped(failed)
             THEN Leave(i, t, failed)
             ELSE IF failed.attempt < max_retries - 1
             THEN Continue(i, [failed EXCEPT !.pc = "sleep"])
             ELSE Continue(i, LoopNext(failed, failed.attempt + 1))

\* line 496: asyncio.sleep(2 ** attempt) ends and the loop takes its next value
SleepDone(i) ==
    /\ dpc = "gathering"
    /\ task[i].pc = "sleep"
    /\ Continue(i, LoopNext(task[i], task[i].attempt + 1))

\* lines 500-507: the fallback call of task i ends with r
FallbackReturn(i) ==
    /\ dpc = "gathering"
    /\ task[i].pc = "fallback"
    /\ \E r \in Returns(fallback_model, messages_list[i]) :
         LET t == Logged(task[i], r)
         IN  IF IsRaise(r) THEN Leave(i, t, FallbackException(i, r.exc))
             ELSE IF NonBlank(r.ret) THEN Leave(i, t, FallbackSuccess(i, r.ret))
             ELSE Leave(i, t, FallbackEmpty(i, r.ret))

\* ------------------------------------------------------- after the gather

\* results.sort(key=lambda x: x[0]): stable insertion sort, ascending index
RECURSIVE InsertByIdx(_, _)
InsertByIdx(sorted, r) ==
    IF sorted = <<>> THEN <<r>>
    ELSE IF sorted[Len(sorted)].idx <= r.idx THEN Append(sorted, r)
    ELSE Append(InsertByIdx(SubSeq(sorted, 1, Len(sorted) - 1), r), sorted[Len(sorted)])

RECURSIVE InsertByIdxReverse(_, _)
InsertByIdxReverse(sorted, r) ==
    IF sorted = <<>> THEN <<r>>
    ELSE IF sorted[Len(sorted)].idx >= r.idx THEN Append(sorted, r)
    ELSE Append(InsertByIdxReverse(SubSeq(sorted, 1, Len(sorted) - 1), r), sorted[Len(sorted)])

RECURSIVE SortFromReverse(_, _, _)
SortFromReverse(rs, k, acc) ==
    IF k > Len(rs) THEN acc ELSE SortFromReverse(rs, k + 1, InsertByIdxReverse(acc, rs[k]))

SortByIdxReverse(rs) == SortFromReverse(rs, 1, <<>>)

RECURSIVE SortFrom(_, _, _)
SortFrom(rs, k, acc) ==
    IF k > Len(rs) THEN acc ELSE SortFrom(rs, k + 1, InsertByIdx(acc, rs[k]))

SortByIdx(rs) == SortFrom(rs, 1, <<>>)

\* lines 519-521: sum(1 for r in results if ...)
Summary(rs) ==
    [ success_primary |-> Cardinality({k \in 1 .. Len(rs) : rs[k].model = Str(<<model_func>>)}),
      success_fallback |-> Cardinality({k \in 1 .. Len(rs) : rs[k].model = Str(<<fallback_model>>)}),
      failed |-> Cardinality({k \in 1 .. Len(rs) : rs[k].result = PyNone}) ]

\* lines 513-528: every task has returned; gather yields the return values in
\* submission order, they are sorted, counted, and their results returned
GatherDone ==
    /\ dpc = "gathering"
    /\ \A i \in Tasks : task[i].pc = "done"
    /\ LET results == SortByIdx([i \in Tasks |-> task[i].ret])
       IN  /\ summary' = Summary(results)
           /\ returned' = [k \in 1 .. Len(results) |-> results[k].result]
    /\ dpc' = "returned"
    /\ UNCHANGED <<messages_list, model_func, fallback_model, max_concurrent, max_retries,
                   semaphore, waiters, task, overtaken, raised,
                   svars, gvars, pvars, ivars>>

Next ==
    \/ RaiseUnknownModel
    \/ Gather
    \/ \E i \in Tasks : Acquire(i)
    \/ \E i \in Tasks : PrimaryReturn(i)
    \/ \E i \in Tasks : SleepDone(i)
    \/ \E i \in Tasks : FallbackReturn(i)
    \/ GatherDone

Spec == Init /\ [][Next]_vars

\* the calls of the dispatcher followed to their end: batches of up to
\* MaxFairTasks tasks
FairInit ==
    /\ NoRetrieval
    /\ max_iterations = MAX_ITERATIONS
    /\ parser = NoParse
    /\ merger = NoMerge
    /\ dpc = "called"
    /\ \E n \in 0 .. MaxFairTasks : messages_list = [i \in 1 .. n |-> Payload(i)]
    /\ model_func \in ModelNames
    /\ fallback_model \in ModelNames \ {"gpt5"}
    /\ max_concurrent \in 1 .. MaxConcurrent
    /\ max_retries \in 0 .. MaxRetries
    /\ semaphore = 0
    /\ waiters = <<>>
    /\ task = [i \in Tasks |-> NewTask]
    /\ overtaken = FALSE
    /\ raised = PyNone
    /\ summary = NoSummary
    /\ returned = <<>>

\* every remote call and every sleep comes to its end, and the event loop
\* runs a coroutine that is ready: a step that can be taken is taken
SpecFair == FairInit /\ [][Next]_vars /\ WF_vars(Next)

\* ------------------------------------------------- dispatcher properties

\* task i holds a concurrency slot: it is inside `async with semaphore`
Holding(i) == task[i].pc \in {"primary", "sleep", "fallback"}
Holders == {i \in Tasks : Holding(i)}

Finished(i) == task[i].pc = "done" /\ ~IsEscaped(task[i].ret)

\* the remote calls task i has made, and those made to the primary executor
Calls(i) == task[i].log
PrimaryCalls(i) == {k \in 1 .. Len(Calls(i)) : Calls(i)[k].by = "primary"}
FallbackCalls(i) == {k \in 1 .. Len(Calls(i)) : Calls(i)[k].by = "fallback"}

\* every call task i made has failed, the fallback's included
BothFailed(i) ==
    /\ FallbackCalls(i) # {}
    /\ \A k \in 1 .. Len(Calls(i)) : Calls(i)[k].out \in {"failed", "blank", "error"}

\* v is a text that executor `name` produced for `payload`
AnswerOf(v, name, payload) ==
    /\ v # PyNone
    /\ \E k \in 1 .. Len(v.str) - 1 : v.str[k] = name /\ v.str[k + 1] = payload

NamesKnown == model_func \in model_map /\ fallback_model \in model_map

\* C1: at most max_concurrent tasks hold a concurrency slot at any time,
\* where a task awaiting its primary call, awaiting its fallback call or
\* sleeping in backoff holds one
C1_SlotsBounded == Cardinality(Holders) <= max_concurrent

\* a task waits while max_concurrent >= 2 tasks hold the slots, all asleep
C1_Witness ==
    /\ max_concurrent >= 2
    /\ Cardinality(Holders) = max_concurrent
    /\ \A i \in Holders : task[i].pc = "sleep"
    /\ \E i \in Tasks : task[i].pc = "waiting"

\* C2: the returned list has one element per submitted task, and the element
\* at position i is the result of the task submitted at position i: None, or
\* a text produced for the payload at position i
C2_OrderPreserved ==
    dpc = "returned" =>
        /\ Len(returned) = Len(messages_list)
        /\ \A i \in Tasks :
              /\ returned[i] = task[i].ret.result
              /\ returned[i] # PyNone =>
                    \E name \in model_map : AnswerOf(returned[i], name, messages_list[i])

\* three tasks returned although a later task finished before an earlier one
C2_Witness ==
    /\ dpc = "returned"
    /\ Len(messages_list) = 3
    /\ overtaken
    /\ \A i \in Tasks : returned[i] # PyNone

\* C3: a task whose primary and fallback calls all failed does not make the
\* dispatcher raise, and the returned list holds None at exactly the positions
\* of such tasks and a non-blank text for its own payload at every other
C3_FailureIsolated ==
    /\ (\E i \in Tasks : task[i].pc = "done" /\ BothFailed(i)) => dpc # "raised"
    /\ dpc = "returned" =>
          /\ Len(returned) = Len(messages_list)
          /\ \A i \in Tasks :
                IF BothFailed(i)
                THEN returned[i] = PyNone
                ELSE /\ NonBlank(returned[i])
                     /\ \E name \in model_map : AnswerOf(returned[i], name, messages_list[i])

\* 3 tasks, concurrency 2, task #2 failing on every call: [success, failure, success]
C3_Witness ==
    /\ dpc = "returned"
    /\ Len(messages_list) = 3
    /\ max_concurrent = 2
    /\ max_retries = 2
    /\ BothFailed(2)
    /\ returned[1] # PyNone /\ returned[2] = PyNone /\ returned[3] # PyNone

\* C4: no task makes more than max_retries + 2 remote calls
C4_AttemptsBounded == \A i \in Tasks : Len(Calls(i)) <= max_retries + 2

\* a task that failed on every primary attempt and on the fallback
C4_Witness ==
    \E i \in Tasks :
        /\ max_retries = 2
        /\ Finished(i)
        /\ BothFailed(i)
        /\ Len(Calls(i)) = max_retries + 1

\* C5: a task turns to the fallback executor only after max_retries + 1
\* primary attempts (one initial attempt and max_retries retries)
C5_PrimaryAttemptsBeforeFallback ==
    \A i \in Tasks : FallbackCalls(i) # {} => Cardinality(PrimaryCalls(i)) = max_retries + 1

\* C6: the fallback executor is called at most once per task, only as the
\* last call after every primary attempt of the loop has failed, and a
\* primary attempt that returns a non-blank result ends the task at once
C6_FallbackOnce ==
    \A i \in Tasks :
        /\ Cardinality(FallbackCalls(i)) <= 1
        /\ \A k \in FallbackCalls(i) :
              /\ k = Len(Calls(i))
              /\ k - 1 = max_retries
              /\ \A j \in 1 .. k - 1 : Calls(i)[j] = [by |-> "primary", out |-> "failed"]
        /\ \A k \in 1 .. Len(Calls(i)) :
              Calls(i)[k].out = "ok" => k = Len(Calls(i)) /\ task[i].pc = "done"

\* one task reached the fallback after two failed primary attempts, another
\* succeeded on its second primary attempt and never called the fallback
C6_Witness ==
    /\ max_retries = 2
    /\ \E i \in Tasks : Finished(i) /\ FallbackCalls(i) = {3}
    /\ \E i \in Tasks :
          /\ Finished(i)
          /\ Calls(i) = <<[by |-> "primary", out |-> "failed"], [by |-> "primary", out |-> "ok"]>>

\* C7: a task whose primary attempts all failed and whose fallback call
\* returned a non-blank text is a success carrying that text and tagged with
\* the fallback's name; a task that succeeded on a primary attempt carries
\* the primary's text and is tagged with the primary's name
C7_ExecutorIdentity ==
    \A i \in Tasks :
        Finished(i) /\ ~BothFailed(i) =>
            LET r == task[i].ret
            IN  /\ r.error = PyNone
                /\ NonBlank(r.result)
                /\ IF FallbackCalls(i) # {}
                   THEN /\ r.model = Str(<<fallback_model>>)
                        /\ AnswerOf(r.result, fallback_model, messages_list[i])
                   ELSE /\ r.model = Str(<<model_func>>)
                        /\ AnswerOf(r.result, model_func, messages_list[i])

\* with distinct names, one task succeeded through the fallback after two
\* failed primary attempts and another through the primary
C7_Witness ==
    /\ model_func # fallback_model
    /\ max_retries = 2
    /\ \E i \in Tasks :
          /\ Finished(i)
          /\ Calls(i)[Len(Calls(i))] = [by |-> "fallback", out |-> "ok"]
          /\ task[i].ret.model # Str(<<model_func>>)
    /\ \E i \in Tasks : Finished(i) /\ task[i].ret.model = Str(<<model_func>>)

\* C8 (as stated): the result returned to the caller for a task whose primary
\* and fallback both failed is a failure that carries its reason
C8_ReturnedCarriesReason ==
    dpc = "returned" =>
        \A i \in Tasks : BothFailed(i) => returned[i] # PyNone /\ returned[i] = task[i].ret.error

\* C8 (amended): the tuple of a task whose primary and fallback both failed
\* has no result and a reason, which tells a blank fallback result from a
\* fallback exception; the list returned to the caller holds None for it
C8_FailureReason ==
    \A i \in Tasks :
        task[i].pc = "done" /\ BothFailed(i) =>
            LET r == task[i].ret
                kind == Calls(i)[Len(Calls(i))].out
            IN  /\ r.result = PyNone
                /\ r.model = PyNone
                /\ r.error # PyNone
                /\ kind = "blank" <=> r.error = Str(<<"Fallback also returned empty">>)
                /\ kind = "error" <=> r.error = Str(<<"Fallback failed: ", "APIError">>)
                /\ dpc = "returned" => returned[i] = PyNone

\* a batch returned with one task failed on a blank fallback result and
\* another on a fallback exception
C8_Witness ==
    /\ dpc = "returned"
    /\ \E i, j \in Tasks :
          /\ BothFailed(i) /\ BothFailed(j)
          /\ Calls(i)[Len(Calls(i))].out = "blank"
          /\ Calls(j)[Len(Calls(j))].out = "error"
          /\ task[i].ret.error # task[j].ret.error

\* C9 (as stated): no call of the dispatcher raises
C9_NeverRaises == dpc # "raised" /\ raised = PyNone

\* C9 (amended): a call with known primary and fallback names never raises;
\* the dispatcher raises only ValueError for an unknown name, before any task
\* has started
C9_OnlyUnknownModelRaises ==
    /\ NamesKnown => dpc # "raised" /\ raised = PyNone
    /\ dpc = "raised" =>
          /\ ~NamesKnown
          /\ raised.str[1] = "ValueError"
          /\ \A i \in Tasks : task[i].pc = "created"

\* a batch of three tasks returned although every remote call raised
C9_Witness ==
    /\ dpc = "returned"
    /\ NamesKnown
    /\ max_retries = 0
    /\ Len(messages_list) = 3
    /\ \A i \in Tasks : Calls(i) = <<[by |-> "fallback", out |-> "error"]>>

\* ------------------------------------------------------- retrieval workflow

\* the chunks of the index and the similarity scores it reports: below the
\* threshold, equal to it, and above it
ChunkIds == {"c1", "c2", "c3"}
Scores == {40, 45, 80}

Metadata(id) == <<"metadata", id>>

Matches == {[id |-> id, score |-> sc, metadata |-> Metadata(id)] : id \in ChunkIds, sc \in Scores}

Min(a, b) == IF a <= b THEN a ELSE b

\* results.matches of one index.query(top_k=DEFAULT_TOP_K): at most top_k
\* matches, ranked by score, no id twice
Replies ==
    UNION { { r \in [1 .. n -> Matches] :
                /\ \A j, k \in 1 .. n : j < k => r[j].id # r[k].id /\ r[j].score >= r[k].score }
            : n \in 0 .. Min(MaxMatches, DEFAULT_TOP_K) }

\* state.get(key, default)
Get(st, key, default) == IF key \in DOMAIN st THEN st[key] ELSE default

\* {**state, key: value, ...}
Spread(st, updates) == updates @@ st

\* the variants expand_query can return
Variations == {<<>>} \cup UNION {{[k \in 1 .. n |-> <<"v1", "v2", "v3", "v4">>[k]]} : n \in 1 .. MaxVariations}

\* position of chunk_id in the dict, 0 when absent
RECURSIVE KeyIndex(_, _, _)
KeyIndex(d, chunk_id, k) ==
    IF k > Len(d) THEN 0 ELSE IF d[k].id = chunk_id THEN k ELSE KeyIndex(d, chunk_id, k + 1)

\* all_matches[chunk_id] = entry: a new key is appended, a present key keeps its place
DictSet(d, chunk_id, entry) ==
    LET k == KeyIndex(d, chunk_id, 1)
    IN  IF k = 0 THEN Append(d, entry) ELSE [d EXCEPT ![k] = entry]

KeepsMatchLast(d, match) == TRUE

KeepsMatchFirst(d, match) == KeyIndex(d, match.id, 1) = 0

\* line 70: chunk_id not in all_matches or match.score > all_matches[chunk_id]["score"]
KeepsMatch(d, match) ==
    LET k == KeyIndex(d, match.id, 1)
    IN  k = 0 \/ match.score > d[k].score

MergeMatchAboveOnly(d, match, i) ==
    IF match.score > SIMILARITY_THRESHOLD /\ KeepsMatch(d, match)
    THEN DictSet(d, match.id, [id |-> match.id, score |-> match.score,
                               metadata |-> match.metadata, matched_query_idx |-> i])
    ELSE d

\* lines 66-76: one match of query i
MergeMatch(d, match, i) ==
    IF match.score >= SIMILARITY_THRESHOLD /\ KeepsMatch(d, match)
    THEN DictSet(d, match.id, [id |-> match.id, score |-> match.score,
                               metadata |-> match.metadata, matched_query_idx |-> i])
    ELSE d

\* lines 65-76: for match in results.matches
RECURSIVE MergeMatches(_, _, _)
MergeMatches(d, matches, i) ==
    IF matches = <<>> THEN d
    ELSE MergeMatches(MergeMatch(d, Head(matches), i), Tail(matches), i)

\* sorted(..., key=score, reverse=True): stable, equal scores keep their order
RECURSIVE InsertByScore(_, _)
InsertByScore(sorted, c) ==
    IF sorted = <<>> THEN <<c>>
    ELSE IF sorted[Len(sorted)].score >= c.score THEN Append(sorted, c)
    ELSE Append(InsertByScore(SubSeq(sorted, 1, Len(sorted) - 1), c), sorted[Len(sorted)])

RECURSIVE SortByScoreFrom(_, _, _)
SortByScoreFrom(cs, k, acc) ==
    IF k > Len(cs) THEN acc ELSE SortByScoreFrom(cs, k + 1, InsertByScore(acc, cs[k]))

SortByScoreSkipped(cs) == cs

SortByScore(cs) == SortByScoreFrom(cs, 1, <<>>)

NeedsRefinementInclusive(retrieved_chunks) == Len(retrieved_chunks) <= 3

\* line 85: needs_refinement = len(retrieved_chunks) < 3
NeedsRefinement(retrieved_chunks) == Len(retrieved_chunks) < 3

\* lines 78-93: the state search_vectors returns
SearchResult(st, d) ==
    LET retrieved_chunks == SortByScore(d)
        retrieval_scores == [k \in 1 .. Len(retrieved_chunks) |-> retrieved_chunks[k].score]
        needs_refinement == NeedsRefinement(retrieved_chunks)
    IN  Spread(st, [retrieved_chunks |-> retrieved_chunks,
                    retrieval_scores |-> retrieval_scores,
                    needs_refinement |-> needs_refinement,
                    iteration_count |-> Get(st, "iteration_count", 0) + 1])

\* the states search_vectors is entered with: as process_query leaves them on
\* the first pass (iteration_count 0, no chunks yet) and on a refinement pass
\* (the chunks of the pass before, fewer than 3, and needs_refinement set)
Chunk(id, score, i) == [id |-> id, score |-> score, metadata |-> Metadata(id), matched_query_idx |-> i]

EarlierChunks == { <<>>, <<Chunk("c1", 80, 0), Chunk("c3", 45, 1)>> }

FirstPassStates ==
    { [query |-> "q", iteration_count |-> 0, needs_refinement |-> FALSE,
       processed_query |-> "q", query_type |-> "research_question",
       query_variations |-> v, query_dimensions |-> v] : v \in Variations }

RefinementStates ==
    { Spread(st, [iteration_count |-> n, needs_refinement |-> TRUE, retrieved_chunks |-> cs,
                  retrieval_scores |-> [k \in 1 .. Len(cs) |-> cs[k].score]]) :
        st \in FirstPassStates, n \in 1 .. MAX_ITERATIONS - 1, cs \in EarlierChunks }

SearchInit ==
    /\ node = "search"
    /\ state \in FirstPassStates \cup RefinementStates
    /\ all_queries = <<>>
    /\ all_matches = <<>>
    /\ qi = 0
    /\ index_returned = {}
    /\ max_iterations = MAX_ITERATIONS
    /\ trace = <<>>
    /\ remote = <<>>
    /\ fault = PyNone
    /\ pinecone_index = PyNone
    /\ index_log = <<>>
    /\ entered_with = <<>>
    /\ parser = NoParse
    /\ merger = NoMerge
    /\ dpc = "none"
    /\ messages_list = <<>>
    /\ model_func = "gpt5"
    /\ fallback_model = "claude_sonnet"
    /\ max_concurrent = 1
    /\ max_retries = 0
    /\ semaphore = 0
    /\ waiters = <<>>
    /\ task = <<>>
    /\ overtaken = FALSE
    /\ raised = PyNone
    /\ summary = NoSummary
    /\ returned = <<>>

InitialMatchesKeepsEarlier(st) == Get(st, "retrieved_chunks", <<>>)

\* line 56: all_matches = {}
InitialMatches(st) == <<>>

\* search_vectors, lines 40-59: the queries are listed and embedded, the dict
\* is empty and the first index.query is sent
SearchStart ==
    /\ node = "search"
    /\ LET query_variations == Get(state, "query_variations", <<>>)
           original_query == IF Get(state, "processed_query", "") # ""
                             THEN state["processed_query"] ELSE Get(state, "query", "")
       IN  all_queries' = IF query_variations # <<>>
                          THEN <<original_query>> \o query_variations
                          ELSE <<original_query>>
    /\ all_matches' = InitialMatches(state)
    /\ qi' = 0
    /\ index_returned' = {}
    /\ node' = "index_query"
    /\ entered_with' = state
    /\ UNCHANGED <<state, dvars, gvars, pvars, pinecone_index, index_log>>

\* search_vectors, lines 58-93: index.query for embedding i answers; its
\* matches are merged; after the last query the state is returned
IndexQuery ==
    /\ node = "index_query"
    /\ \E reply \in Replies :
         LET d == MergeMatches(all_matches, reply, qi)
         IN  /\ all_matches' = d
             /\ index_returned' = index_returned \cup
                    {[id |-> reply[k].id, score |-> reply[k].score] : k \in 1 .. Len(reply)}
             /\ qi' = qi + 1
             /\ IF qi + 1 < Len(all_queries)
                THEN UNCHANGED <<node, state>>
                ELSE node' = "searched" /\ state' = SearchResult(state, d)
    /\ UNCHANGED <<all_queries, dvars, gvars, pvars, ivars>>

SearchNext ==
    \/ SearchStart
    \/ IndexQuery

SpecSearch == SearchInit /\ [][SearchNext]_vars

\* ------------------------------------------------------ search properties

\* the scores at or above the threshold at which the index returned id
\* during the pass
ReturnedScores(id) ==
    {m.score : m \in {x \in index_returned : x.id = id /\ x.score >= SIMILARITY_THRESHOLD}}

SetMax(S) == CHOOSE x \in S : \A y \in S : y <= x

\* C10: after a search pass the ids of retrieved_chunks are pairwise distinct
\* and the score stored for an id is the highest score, at or above the
\* threshold, at which any query of the pass returned that id
C10_DedupKeepsHighest ==
    node = "searched" =>
        LET cs == state["retrieved_chunks"]
        IN  /\ \A j, k \in 1 .. Len(cs) : j # k => cs[j].id # cs[k].id
            /\ \A k \in 1 .. Len(cs) :
                  /\ ReturnedScores(cs[k].id) # {}
                  /\ cs[k].score = SetMax(ReturnedScores(cs[k].id))

\* chunk c1 was returned at 0.80 by the first query and at 0.45 by a later
\* one: one entry, with 0.80
C10_Witness ==
    /\ node = "searched"
    /\ {[id |-> "c1", score |-> 45], [id |-> "c1", score |-> 80]} \subseteq index_returned
    /\ \E k \in 1 .. Len(state["retrieved_chunks"]) :
          state["retrieved_chunks"][k] = Chunk("c1", 80, 0)

\* the positions of retrieved_chunks that hold id
PositionsOf(cs, id) == {k \in 1 .. Len(cs) : cs[k].id = id}

\* C11: after a search pass an id is in retrieved_chunks exactly when some
\* query of the pass returned it with a score at or above the threshold (a
\* score equal to the threshold counts, a lower one never does), and then it
\* is there once, whichever query returned it
C11_ThresholdRetention ==
    node = "searched" =>
        LET cs == state["retrieved_chunks"]
        IN  /\ \A id \in ChunkIds :
                  /\ PositionsOf(cs, id) # {} <=> ReturnedScores(id) # {}
                  /\ Cardinality(PositionsOf(cs, id)) <= 1
            /\ \A k \in 1 .. Len(cs) : cs[k].score >= SIMILARITY_THRESHOLD

\* a chunk kept at exactly the threshold that only the variant query
\* returned (the original query returned it at no score), next to a chunk
\* returned only below the threshold, which is absent
C11_Witness ==
    /\ node = "searched"
    /\ \E k \in 1 .. Len(state["retrieved_chunks"]) :
          LET c == state["retrieved_chunks"][k]
          IN  /\ c.score = SIMILARITY_THRESHOLD
              /\ c.matched_query_idx = 1
              /\ \A x \in index_returned : x.id = c.id => x.score = SIMILARITY_THRESHOLD
    /\ \E x \in index_returned :
          /\ x.score < SIMILARITY_THRESHOLD
          /\ ReturnedScores(x.id) = {}
          /\ PositionsOf(state["retrieved_chunks"], x.id) = {}

\* C12: after a search pass retrieved_chunks is in non-increasing order of
\* score and retrieval_scores lists the scores of retrieved_chunks, position
\* by position
C12_SortedByScore ==
    node = "searched" =>
        LET cs == state["retrieved_chunks"]
            scores == state["retrieval_scores"]
        IN  /\ \A k \in 1 .. Len(cs) - 1 : cs[k].score >= cs[k + 1].score
            /\ Len(scores) = Len(cs)
            /\ \A k \in 1 .. Len(cs) : scores[k] = cs[k].score

\* the dict was filled in ascending order of score, so the sort had to
\* reorder it
C12_Witness ==
    /\ node = "searched"
    /\ Len(all_matches) >= 2
    /\ all_matches[1].score < all_matches[2].score
    /\ state["retrieved_chunks"] = <<all_matches[2], all_matches[1]>>

\* ------------------------------------------------------------ the merge law
\* The merge of search_vectors (lines 56-79) as a function of the result
\* lists of a pass and of the order in which they are processed.  Result list
\* q is the reply to query q - 1, and keeps that query index whenever it is
\* processed.

\* the result lists of the law: the matches the threshold test of line 66
\* lets through (a match below the threshold leaves the dict as it is
\* whatever the dict holds, so it has no part in the order of processing)
SurvivingReplies ==
    {r \in Replies : \A k \in 1 .. Len(r) : r[k].score >= SIMILARITY_THRESHOLD}

\* the orders in which n result lists can be processed, each list once
Orders(n) == {o \in [1 .. n -> 1 .. n] : \A j, k \in 1 .. n : j # k => o[j] # o[k]}

\* the for loop of lines 58-76 taken over the lists in the given order
RECURSIVE MergeInOrder(_, _, _)
MergeInOrder(d, results, order) ==
    IF order = <<>> THEN d
    ELSE MergeInOrder(MergeMatches(d, results[Head(order)], Head(order) - 1), results, Tail(order))

\* lines 56-79 with the lists processed in the given order
MergedList(results, order) == SortByScore(MergeInOrder(<<>>, results, order))

\* the order of the source: query 0, query 1, ...
QueryOrder(results) == [k \in 1 .. Len(results) |-> k]

MergeInit ==
    /\ \E n \in 1 .. MaxVariations + 1 :
         \E results \in [1 .. n -> SurvivingReplies] :
            merger = [pc |-> "given", results |-> results, order |-> <<>>, out |-> <<>>, again |-> <<>>]
    /\ parser = NoParse
    /\ node = "none"
    /\ state = <<>>
    /\ all_queries = <<>>
    /\ all_matches = <<>>
    /\ qi = 0
    /\ index_returned = {}
    /\ max_iterations = MAX_ITERATIONS
    /\ trace = <<>>
    /\ remote = <<>>
    /\ fault = PyNone
    /\ pinecone_index = PyNone
    /\ index_log = <<>>
    /\ entered_with = <<>>
    /\ dpc = "none"
    /\ messages_list = <<>>
    /\ model_func = "gpt5"
    /\ fallback_model = "claude_sonnet"
    /\ max_concurrent = 1
    /\ max_retries = 0
    /\ semaphore = 0
    /\ waiters = <<>>
    /\ task = <<>>
    /\ overtaken = FALSE
    /\ raised = PyNone
    /\ summary = NoSummary
    /\ returned = <<>>

\* the result lists are merged in some order
MergeOnce ==
    /\ merger.pc = "given"
    /\ \E order \in Orders(Len(merger.results)) :
          merger' = [merger EXCEPT !.pc = "merged", !.order = order,
                                   !.out = MergedList(merger.results, order)]
    /\ UNCHANGED <<dvars, svars, gvars, parser, ivars>>

\* one of the result lists is processed a second time, after the others
MergeAgain ==
    /\ merger.pc = "merged"
    /\ \E q \in 1 .. Len(merger.results) :
          merger' = [merger EXCEPT !.pc = "merged_again",
                                   !.again = MergedList(merger.results, Append(merger.order, q))]
    /\ UNCHANGED <<dvars, svars, gvars, parser, ivars>>

MergeNext ==
    \/ MergeOnce
    \/ MergeAgain

SpecMerge == MergeInit /\ [][MergeNext]_vars

\* ------------------------------------------------------- merge properties

Ids(cs) == [k \in 1 .. Len(cs) |-> cs[k].id]

IdScores(cs) == {[id |-> cs[k].id, score |-> cs[k].score] : k \in 1 .. Len(cs)}

\* C13 (as stated): the merged list has the same entries in the same order
\* whichever order the result lists are processed in
C13_MergeOrderIndependent ==
    merger.pc = "merged" =>
        Ids(merger.out) = Ids(MergedList(merger.results, QueryOrder(merger.results)))

\* C13 (amended): whichever order the result lists are processed in, the
\* merged list holds the same ids with the same scores and is in
\* non-increasing order of score, so it is the same list up to the order of
\* entries of equal score (and the query index recorded for an id that two
\* queries returned at the same score); processing a result list a second
\* time changes nothing
C13_MergeOrderIndependentUpToTies ==
    /\ merger.pc \in {"merged", "merged_again"} =>
          LET ref == MergedList(merger.results, QueryOrder(merger.results))
              out == merger.out
          IN  /\ IdScores(out) = IdScores(ref)
              /\ Len(out) = Len(ref)
              /\ \A k \in 1 .. Len(out) : out[k].score = ref[k].score
              /\ \A k \in 1 .. Len(out) :
                    (\A j \in 1 .. Len(out) : j # k => out[j].score # out[k].score)
                        => out[k].id = ref[k].id
    /\ merger.pc = "merged_again" => merger.again = merger.out

\* two lists processed variant first: the same chunk at 0.45 and at 0.80 and
\* another chunk, merged to the list the query order gives, and merged again
\* with no change
C13_Witness ==
    /\ merger.pc = "merged_again"
    /\ Len(merger.results) = 2
    /\ merger.order = <<2, 1>>
    /\ \E j, k \in 1 .. 2 : \E a \in 1 .. Len(merger.results[j]), b \in 1 .. Len(merger.results[k]) :
          /\ j # k
          /\ merger.results[j][a].id = merger.results[k][b].id
          /\ merger.results[j][a].score = 45
          /\ merger.results[k][b].score = 80
    /\ Len(merger.out) = 2
    /\ merger.out = MergedList(merger.results, <<1, 2>>)

\* ------------------------------------------------------------- expand_query
\* A line of the expansion response is a sequence of tokens: the marker words
\* in upper or lower case, ":", "*", "backtick", " " (whitespace) and words of
\* text.

\* str.upper(), token by token
UpperToken(tok) ==
    IF tok \in {"dimension", "Dimension"} THEN "DIMENSION"
    ELSE IF tok \in {"reasoning", "Reasoning"} THEN "REASONING"
    ELSE IF tok \in {"query", "Query"} THEN "QUERY"
    ELSE tok

Upper(line) == [k \in 1 .. Len(line) |-> UpperToken(line[k])]

\* str.strip(chars)
RECURSIVE LStripChars(_, _)
LStripChars(s, chars) == IF s # <<>> /\ Head(s) \in chars THEN LStripChars(Tail(s), chars) ELSE s

RECURSIVE RStripChars(_, _)
RStripChars(s, chars) ==
    IF s # <<>> /\ s[Len(s)] \in chars THEN RStripChars(SubSeq(s, 1, Len(s) - 1), chars) ELSE s

StripChars(s, chars) == RStripChars(LStripChars(s, chars), chars)

\* marker + ":" in line
Contains(line, marker) == \E k \in 1 .. Len(line) - 1 : line[k] = marker /\ line[k + 1] = ":"

\* line.startswith(marker + ":")
StartsWith(line, marker) == Len(line) >= 2 /\ line[1] = marker /\ line[2] = ":"

\* line.split(":", 1)[-1]
RECURSIVE AfterColon(_, _)
AfterColon(line, k) ==
    IF k > Len(line) THEN line
    ELSE IF line[k] = ":" THEN SubSeq(line, k + 1, Len(line))
    ELSE AfterColon(line, k + 1)

\* line.split(":", 1)[-1].strip().strip("*").strip()
FieldText(line) == StripChars(StripChars(StripChars(AfterColon(line, 1), {" "}), {"*"}), {" "})

\* line.split(":", 1)[-1].strip().strip(backtick).strip("*").strip()
QueryText(line) ==
    StripChars(StripChars(StripChars(StripChars(AfterColon(line, 1), {" "}), {"backtick"}), {"*"}), {" "})

\* the tests of lines 91, 94 and 96
IsDimensionLine(line) == Contains(Upper(line), "DIMENSION")

IsReasoningLine(line) == StartsWith(Upper(line), "REASONING") \/ Contains(line, "REASONING")

IsQueryLine(line) == StartsWith(Upper(line), "QUERY") \/ Contains(line, "QUERY")

\* the locals of expand_query before the loop (lines 79-83)
ParseLocals ==
    [current_layer |-> PyNone, current_reasoning |-> PyNone, queries |-> <<>>, layered_results |-> <<>>]

AppendVariantInFront(p, query_text) ==
    [p EXCEPT !.queries = <<query_text>> \o p.queries,
              !.layered_results = <<[dimension |-> p.current_layer,
                                     reasoning |-> p.current_reasoning,
                                     query |-> query_text]>> \o p.layered_results,
              !.current_layer = PyNone,
              !.current_reasoning = PyNone]

\* lines 99-106
AppendVariant(p, query_text) ==
    [p EXCEPT !.queries = Append(p.queries, query_text),
              !.layered_results = Append(p.layered_results,
                                         [dimension |-> p.current_layer,
                                          reasoning |-> p.current_reasoning,
                                          query |-> query_text]),
              !.current_layer = PyNone,
              !.current_reasoning = PyNone]

\* lines 86-106: the body of the loop for one line of the response
ParseLine(p, raw) ==
    LET line == StripChars(raw, {" "})
    IN  IF line = <<>> THEN p
        ELSE IF IsDimensionLine(line) THEN [p EXCEPT !.current_layer = Str(FieldText(line))]
        ELSE IF IsReasoningLine(line) THEN [p EXCEPT !.current_reasoning = Str(FieldText(line))]
        ELSE IF IsQueryLine(line)
             THEN IF QueryText(line) # <<>> THEN AppendVariant(p, Str(QueryText(line))) ELSE p
        ELSE p

\* lines 85-106: the loop over the lines of the response
RECURSIVE ParseLines(_, _)
ParseLines(p, lines) == IF lines = <<>> THEN p ELSE ParseLines(ParseLine(p, Head(lines)), Tail(lines))

\* the responses of the expansion call: a sequence of items, each a labeled
\* triple or a triple with one line missing or with an empty query text,
\* written plainly or with markdown emphasis, and followed by a blank line
ItemKinds == {"full", "no_query", "no_dimension", "no_reasoning", "blank_query"}

Styles == {"plain", "emphasis"}

DimensionOf(j) == <<"dim1", "dim2", "dim3", "dim4", "dim5">>[j]

ReasoningOf(j) == <<"why1", "why2", "why3", "why4", "why5">>[j]

QueryOf(j) == <<"ask1", "ask2", "ask3", "ask4", "ask5">>[j]

\* the marker word as a response writes it: upper case, lower case or
\* capitalised
MarkerWord(marker, style) ==
    IF style \in {"lower", "lower_emphasis"}
    THEN (IF marker = "DIMENSION" THEN "dimension"
          ELSE IF marker = "REASONING" THEN "reasoning" ELSE "query")
    ELSE IF style = "mixed_emphasis"
    THEN (IF marker = "DIMENSION" THEN "Dimension"
          ELSE IF marker = "REASONING" THEN "Reasoning" ELSE "Query")
    ELSE marker

MarkerLine(marker, text, style) ==
    IF style \in {"plain", "lower"} THEN <<MarkerWord(marker, style), ":", " ">> \o text
    ELSE <<"*", "*", MarkerWord(marker, style), ":", "*", "*", " ">> \o text

ItemLines(item, j) ==
    (IF item.kind # "no_dimension"
     THEN <<MarkerLine("DIMENSION", <<DimensionOf(j)>>, item.style)>> ELSE <<>>)
    \o (IF item.kind # "no_reasoning"
        THEN <<MarkerLine("REASONING", <<ReasoningOf(j)>>, item.style)>> ELSE <<>>)
    \o (IF item.kind = "no_query" THEN <<>>
        ELSE IF item.kind = "blank_query" THEN <<MarkerLine("QUERY", <<>>, item.style)>>
        ELSE <<MarkerLine("QUERY", <<"backtick", QueryOf(j), "backtick">>, item.style)>>)
    \o << <<" ">> >>

RECURSIVE ResponseFrom(_, _)
ResponseFrom(items, j) ==
    IF j > Len(items) THEN <<>> ELSE ItemLines(items[j], j) \o ResponseFrom(items, j + 1)

\* response.strip().split("\n") of a response written from the items
ResponseLines(items) == ResponseFrom(items, 1)

Items == [kind : ItemKinds, style : Styles]

\* the marker lines in lower or mixed case, plain or with emphasis
CaseStyles == {"lower", "lower_emphasis", "mixed_emphasis"}

CaseItems == [kind : {"full", "no_query"}, style : Styles \cup CaseStyles]

\* expand_query has received the response and is about to scan it
ParseInit ==
    /\ \E n \in 0 .. MaxItems :
         \E items \in [1 .. n -> Items] :
            parser = [pc |-> "scan", items |-> items, lines |-> ResponseLines(items),
                      i |-> 1, locals |-> ParseLocals, ret |-> PyNone]
    /\ merger = NoMerge
    /\ node = "none"
    /\ state = <<>>
    /\ all_queries = <<>>
    /\ all_matches = <<>>
    /\ qi = 0
    /\ index_returned = {}
    /\ max_iterations = MAX_ITERATIONS
    /\ trace = <<>>
    /\ remote = <<>>
    /\ fault = PyNone
    /\ pinecone_index = PyNone
    /\ index_log = <<>>
    /\ entered_with = <<>>
    /\ dpc = "none"
    /\ messages_list = <<>>
    /\ model_func = "gpt5"
    /\ fallback_model = "claude_sonnet"
    /\ max_concurrent = 1
    /\ max_retries = 0
    /\ semaphore = 0
    /\ waiters = <<>>
    /\ task = <<>>
    /\ overtaken = FALSE
    /\ raised = PyNone
    /\ summary = NoSummary
    /\ returned = <<>>

\* one iteration of the for loop of line 85
ScanLine ==
    /\ parser.pc = "scan"
    /\ parser.i <= Len(parser.lines)
    /\ parser' = [parser EXCEPT !.locals = ParseLine(parser.locals, parser.lines[parser.i]),
                                !.i = parser.i + 1]
    /\ UNCHANGED <<dvars, svars, gvars, merger, ivars>>

\* line 114: return query, queries, layered_results
ParseReturn ==
    /\ parser.pc = "scan"
    /\ parser.i > Len(parser.lines)
    /\ parser' = [parser EXCEPT !.pc = "done",
                                !.ret = [query |-> "q", queries |-> parser.locals.queries,
                                         layered_results |-> parser.locals.layered_results]]
    /\ UNCHANGED <<dvars, svars, gvars, merger, ivars>>

ParseNext ==
    \/ ScanLine
    \/ ParseReturn

\* expand_query has received a response whose marker lines are written in any
\* case and is about to scan it
ParseCaseInit ==
    /\ \E n \in 0 .. MaxItems :
         \E items \in [1 .. n -> CaseItems] :
            parser = [pc |-> "scan", items |-> items, lines |-> ResponseLines(items),
                      i |-> 1, locals |-> ParseLocals, ret |-> PyNone]
    /\ merger = NoMerge
    /\ node = "none"
    /\ state = <<>>
    /\ all_queries = <<>>
    /\ all_matches = <<>>
    /\ qi = 0
    /\ index_returned = {}
    /\ max_iterations = MAX_ITERATIONS
    /\ trace = <<>>
    /\ remote = <<>>
    /\ fault = PyNone
    /\ pinecone_index = PyNone
    /\ index_log = <<>>
    /\ entered_with = <<>>
    /\ dpc = "none"
    /\ messages_list = <<>>
    /\ model_func = "gpt5"
    /\ fallback_model = "claude_sonnet"
    /\ max_concurrent = 1
    /\ max_retries = 0
    /\ semaphore = 0
    /\ waiters = <<>>
    /\ task = <<>>
    /\ overtaken = FALSE
    /\ raised = PyNone
    /\ summary = NoSummary
    /\ returned = <<>>

SpecParse == ParseInit /\ [][ParseNext]_vars

SpecParseCase == ParseCaseInit /\ [][ParseNext]_vars

\* ------------------------------------------------------- parser properties

\* the positions of the items of the response that have all three lines and
\* a query text, in response order
RECURSIVE FullItems(_, _)
FullItems(items, j) ==
    IF j > Len(items) THEN <<>>
    ELSE (IF items[j].kind = "full" THEN <<j>> ELSE <<>>) \o FullItems(items, j + 1)

\* variant v carries the query text of item j (with or without the quoting
\* characters the strips of line 97 leave on it) and the dimension and the
\* reasoning of that same item
IsVariantOf(v, j) ==
    /\ \E k \in 1 .. Len(v.query.str) : v.query.str[k] = QueryOf(j)
    /\ v.dimension = Str(<<DimensionOf(j)>>)
    /\ v.reasoning = Str(<<ReasoningOf(j)>>)

\* C18 (as stated): every variant the parser returns has a dimension and a
\* reasoning, both from the marker lines of its own item, and an item that
\* lacks one of its three fields gives no variant
C18_VariantNeedsAllThree ==
    parser.pc = "done" =>
        LET full == FullItems(parser.items, 1)
            out == parser.ret.layered_results
        IN  /\ Len(out) = Len(full)
            /\ \A k \in 1 .. Len(out) : IsVariantOf(out[k], full[k])

\* C19: when every item of the response is a complete triple or a triple
\* without its QUERY line, the parser returns one variant for each complete
\* triple and nothing else, in response order, each with the dimension and
\* the reasoning of its own triple
C19_TruncatedTripleDropped ==
    (/\ parser.pc = "done"
     /\ \A j \in 1 .. Len(parser.items) : parser.items[j].kind \in {"full", "no_query"})
    => LET full == FullItems(parser.items, 1)
           out == parser.ret.layered_results
       IN  /\ Len(parser.ret.queries) = Len(full)
           /\ Len(out) = Len(full)
           /\ \A k \in 1 .. Len(full) :
                 /\ IsVariantOf(out[k], full[k])
                 /\ parser.ret.queries[k] = out[k].query

\* a complete triple, a triple cut off before its QUERY line and another
\* complete triple gave two variants
C19_Witness ==
    /\ parser.pc = "done"
    /\ Len(parser.items) = 3
    /\ [j \in 1 .. 3 |-> parser.items[j].kind] = <<"full", "no_query", "full">>
    /\ parser.ret.queries = <<Str(<<"ask1">>), Str(<<"ask3">>)>>

\* ---------------------------------------------------------- retrieval graph
\* One run of run_retrieval: the graph of build_graph is walked node by node.
\* A step is one node function run to its return (or to the exception that
\* leaves it) followed by the edge out of the node.

\* the remote calls of a run, as recorded in the history
Called(call, out, ret) == [call |-> call, out |-> out, ret |-> ret]

\* an exception raised by a remote call
RemoteError(call) == Str(<<"APIError", call>>)

\* the responses of the classification call; str.lower() token by token
ClassifyResponses == {Str(<<"research_question">>), Str(<<"Data_Lookup">>)}

LowerToken(tok) == IF tok = "Data_Lookup" THEN "data_lookup" ELSE tok

\* lines 66-68 of query_processing.py
classify_query(response) ==
    IF \E k \in 1 .. Len(response.str) : LowerToken(response.str[k]) = "data_lookup"
    THEN "data_lookup" ELSE "research_question"

\* the responses of the expansion call in a run of the graph: complete
\* triples only, or one triple cut off before its QUERY line
GraphExpansions ==
    {ResponseLines([j \in 1 .. n |-> [kind |-> "full", style |-> "plain"]]) : n \in 0 .. MaxVariations}
    \cup {ResponseLines(<<[kind |-> "no_query", style |-> "plain"]>>)}

\* lines 78-114 of query_processing.py: the tuple expand_query returns
expand_query(query, response) ==
    LET p == ParseLines(ParseLocals, response)
    IN  [processed_query |-> query, queries |-> p.queries, layered_results |-> p.layered_results]

refine_queryRewrites(original_query, previous_chunks) == "refined"

\* lines 117-121
refine_query(original_query, previous_chunks) == original_query

\* lines 40-44 of vector_search.py
AllQueries(st) ==
    LET query_variations == Get(st, "query_variations", <<>>)
        original_query == IF Get(st, "processed_query", "") # ""
                          THEN st["processed_query"] ELSE Get(st, "query", "")
    IN  IF query_variations # <<>> THEN <<original_query>> \o query_variations
        ELSE <<original_query>>

\* what the index holds for query i in a run of the graph: three chunks
\* ranked at 0.80, 0.45 and 0.40, a different chunk first for each query; a
\* query is answered with the first n of them, n up to top_k
Ranking(i) ==
    [p \in 1 .. 3 |-> [id |-> <<"c1", "c2", "c3">>[((p - 1 + 2 * i) % 3) + 1],
                       score |-> <<80, 45, 40>>[p],
                       metadata |-> Metadata(<<"c1", "c2", "c3">>[((p - 1 + 2 * i) % 3) + 1])]]

PassAnswers(i) == {SubSeq(Ranking(i), 1, n) : n \in 0 .. Min(Min(MaxMatches, DEFAULT_TOP_K), 3)}

PassReplies(n) ==
    {rs \in [1 .. n -> UNION {PassAnswers(q - 1) : q \in 1 .. n}] :
        \A q \in 1 .. n : rs[q] \in PassAnswers(q - 1)}

route_after_retrievalNoCap(st) ==
    IF Get(st, "needs_refinement", FALSE) THEN "refine" ELSE "generate"

route_after_retrievalInclusive(st) ==
    IF Get(st, "needs_refinement", FALSE) /\ Get(st, "iteration_count", 0) <= max_iterations
    THEN "refine" ELSE "generate"

route_after_retrievalNeverRefines(st) == "generate"

\* retrieval_orchestrator.py lines 21-25
route_after_retrieval(st) ==
    IF Get(st, "needs_refinement", FALSE) /\ Get(st, "iteration_count", 0) < max_iterations
    THEN "refine" ELSE "generate"

edgesGenerateLoops(from, st) ==
    IF from = "process_query" THEN "search"
    ELSE IF from = "search"
         THEN (IF route_after_retrieval(st) = "refine" THEN "process_query" ELSE "generate")
    ELSE "process_query"

\* retrieval_orchestrator.py lines 38-48: the node that follows node `from`
edges(from, st) ==
    IF from = "process_query" THEN "search"
    ELSE IF from = "search"
         THEN (IF route_after_retrieval(st) = "refine" THEN "process_query" ELSE "generate")
    ELSE "END"

TakeAll(cs, n) == cs

\* chunks[:MAX_CHUNKS_FOR_ANSWER]
Take(cs, n) == SubSeq(cs, 1, Min(Len(cs), n))

NoContextFound == Str(<<"No relevant context found.">>)

NoChainsFound == Str(<<"I couldn't find relevant logic chains to answer this question.">>)

\* answer_generation.py lines 55-96: one block per chunk, joined by separators
RECURSIVE ContextParts(_, _)
ContextParts(chunks, i) ==
    IF i > Len(chunks) THEN <<>>
    ELSE (IF i > 1 THEN <<"---">> ELSE <<>>)
         \o <<"[Source", i, chunks[i].metadata, chunks[i].score>>
         \o ContextParts(chunks, i + 1)

\* answer_generation.py lines 50-96
synthesize_context(chunks) ==
    IF chunks = <<>> THEN NoContextFound ELSE Str(ContextParts(chunks, 1))

SkipsGenerationNever(context) == FALSE

\* answer_generation.py line 101
SkipsGeneration(context) == context = NoContextFound

\* the responses of the synthesis call
SynthesisResponses == {Str(<<"chains">>), Str(<<>>)}

GraphInit ==
    /\ node = "process_query"
    /\ state = [query |-> "q", iteration_count |-> 0, needs_refinement |-> FALSE]
    /\ max_iterations \in 1 .. MAX_ITERATIONS
    /\ trace = <<>>
    /\ remote = <<>>
    /\ fault = PyNone
    /\ pinecone_index = PyNone
    /\ index_log = <<>>
    /\ entered_with = <<>>
    /\ all_queries = <<>>
    /\ all_matches = <<>>
    /\ qi = 0
    /\ index_returned = {}
    /\ parser = NoParse
    /\ merger = NoMerge
    /\ dpc = "none"
    /\ messages_list = <<>>
    /\ model_func = "gpt5"
    /\ fallback_model = "claude_sonnet"
    /\ max_concurrent = 1
    /\ max_retries = 0
    /\ semaphore = 0
    /\ waiters = <<>>
    /\ task = <<>>
    /\ overtaken = FALSE
    /\ raised = PyNone
    /\ summary = NoSummary
    /\ returned = <<>>

\* a remote call of the node raises: the exception leaves the node, the graph
\* and run_retrieval (retrieval_orchestrator.py line 71 has no handler)
Raises(made, call) ==
    /\ node' = "raised"
    /\ fault' = RemoteError(call)
    /\ remote' = remote \o made \o <<Called(call, "error", PyNone)>>
    /\ UNCHANGED state

\* query_processing.py lines 18-56, then the edge to search
ProcessQuery ==
    /\ node = "process_query"
    /\ trace' = Append(trace, "process_query")
    /\ LET query == Get(state, "query", "")
           iteration == Get(state, "iteration_count", 0)
       IN  IF iteration = 0
           THEN \/ Raises(<<>>, "classify")
                \/ Raises(<<Called("classify", "ok", PyNone)>>, "expand")
                \/ \E c \in ClassifyResponses, e \in GraphExpansions :
                      LET x == expand_query(query, e)
                          st == Spread(state, [processed_query |-> x.processed_query,
                                               query_type |-> classify_query(c),
                                               query_variations |-> x.queries,
                                               query_dimensions |-> x.layered_results])
                      IN  /\ state' = st
                          /\ node' = edges("process_query", st)
                          /\ remote' = remote \o <<Called("classify", "ok", PyNone),
                                                   Called("expand", "ok", PyNone)>>
                          /\ UNCHANGED fault
           ELSE LET st == Spread(state, [processed_query |->
                                  refine_query(query, Get(state, "retrieved_chunks", <<>>))])
                IN  /\ state' = st
                    /\ node' = edges("process_query", st)
                    /\ UNCHANGED <<remote, fault>>
    /\ UNCHANGED <<max_iterations, all_queries, all_matches, qi, index_returned, dvars, pvars, ivars>>

\* vector_search.py lines 32-93 as one step, then the conditional edge
SearchPass ==
    /\ node = "search"
    /\ trace' = Append(trace, "search")
    /\ LET n == Len(AllQueries(state))
           answered(k) == <<Called("embed", "ok", PyNone)>>
                          \o [q \in 1 .. k |-> Called("index_query", "ok", PyNone)]
       IN  \/ Raises(<<>>, "embed")
           \/ \E k \in 1 .. n : Raises(answered(k - 1), "index_query")
           \/ \E rs \in PassReplies(n) :
                 LET st == SearchResult(state, MergeInOrder(<<>>, rs, QueryOrder(rs)))
                 IN  /\ state' = st
                     /\ node' = edges("search", st)
                     /\ remote' = remote \o answered(n)
                     /\ UNCHANGED fault
    /\ UNCHANGED <<max_iterations, all_queries, all_matches, qi, index_returned, dvars, pvars, ivars>>

\* answer_generation.py lines 20-47 and 99-111, then the edge to END
GenerateAnswer ==
    /\ node = "generate"
    /\ trace' = Append(trace, "generate")
    /\ LET chunks == Take(Get(state, "retrieved_chunks", <<>>), MAX_CHUNKS_FOR_ANSWER)
           context == synthesize_context(chunks)
       IN  IF SkipsGeneration(context)
           THEN LET st == Spread(state, [synthesized_context |-> context, answer |-> NoChainsFound])
                IN  /\ state' = st
                    /\ node' = edges("generate", st)
                    /\ UNCHANGED <<remote, fault>>
           ELSE \/ Raises(<<>>, "synthesize")
                \/ \E response \in SynthesisResponses :
                      LET st == Spread(state, [synthesized_context |-> context, answer |-> response])
                      IN  /\ state' = st
                          /\ node' = edges("generate", st)
                          /\ remote' = Append(remote, Called("synthesize", "ok", response))
                          /\ UNCHANGED fault
    /\ UNCHANGED <<max_iterations, all_queries, all_matches, qi, index_returned, dvars, pvars, ivars>>

GraphNext ==
    \/ ProcessQuery
    \/ SearchPass
    \/ GenerateAnswer

SpecGraph == GraphInit /\ [][GraphNext]_vars

\* generate_answer alone: it is entered, after a search pass, with a state
\* whose retrieved_chunks is a list of any length up to MaxChunks, in
\* non-increasing order of score
AnswerChunk(k, score) ==
    [id |-> "c" \o ToString(k), score |-> score,
     metadata |-> Metadata("c" \o ToString(k)), matched_query_idx |-> 0]

AnswerChunks ==
    {[k \in 1 .. n |-> AnswerChunk(k, IF k <= h THEN 80 ELSE SIMILARITY_THRESHOLD)] :
        n \in 0 .. MaxChunks, h \in 0 .. MaxChunks}

AnswerInit ==
    /\ node = "generate"
    /\ \E cs \in AnswerChunks :
          state = [query |-> "q", processed_query |-> "q", iteration_count |-> 1,
                   retrieved_chunks |-> cs,
                   retrieval_scores |-> [k \in 1 .. Len(cs) |-> cs[k].score],
                   needs_refinement |-> NeedsRefinement(cs)]
    /\ max_iterations = 1
    /\ trace = <<"process_query", "search">>
    /\ remote = <<>>
    /\ fault = PyNone
    /\ pinecone_index = PyNone
    /\ index_log = <<>>
    /\ entered_with = <<>>
    /\ all_queries = <<>>
    /\ all_matches = <<>>
    /\ qi = 0
    /\ index_returned = {}
    /\ parser = NoParse
    /\ merger = NoMerge
    /\ dpc = "none"
    /\ messages_list = <<>>
    /\ model_func = "gpt5"
    /\ fallback_model = "claude_sonnet"
    /\ max_concurrent = 1
    /\ max_retries = 0
    /\ semaphore = 0
    /\ waiters = <<>>
    /\ task = <<>>
    /\ overtaken = FALSE
    /\ raised = PyNone
    /\ summary = NoSummary
    /\ returned = <<>>

AnswerNext == GenerateAnswer

SpecAnswer == AnswerInit /\ [][AnswerNext]_vars

\* graph.invoke runs the nodes one after the other in one thread: a node whose
\* remote calls have returned (a value or an exception) is followed by the
\* next node of the walk
SpecGraphFair == GraphInit /\ [][GraphNext]_vars /\ WF_vars(GraphNext)

\* -------------------------------------------------------- graph properties

\* the positions of the trace at which node n was entered
Entered(n) == {k \in 1 .. Len(trace) : trace[k] = n}

\* the node entered last was n
LastEntered(n) == trace # <<>> /\ trace[Len(trace)] = n

\* the search passes that ran to their return
PassesDone ==
    Cardinality(Entered("search")) - (IF node = "raised" /\ LastEntered("search") THEN 1 ELSE 0)

\* the remote calls of one kind made so far
CallsOf(call) == {k \in 1 .. Len(remote) : remote[k].call = call}

C15_RouteAfterSearch ==
    (LastEntered("search") /\ node # "raised") =>
        /\ node \in {"process_query", "generate"}
        /\ node = "process_query" <=>
              (state["needs_refinement"] /\ state["iteration_count"] < max_iterations)

\* with a maximum of 1 the first search returned 1 chunk and the run went on
\* to generate without a second pass
C15_Witness ==
    /\ max_iterations = 1
    /\ node = "generate"
    /\ trace = <<"process_query", "search">>
    /\ Len(state["retrieved_chunks"]) = 1
    /\ state["needs_refinement"]

C17_EmptyContextSkipsCall ==
    /\ Cardinality(CallsOf("synthesize")) <= 1
    /\ LastEntered("generate") =>
          IF state["retrieved_chunks"] = <<>>
          THEN /\ CallsOf("synthesize") = {}
               /\ node = "END"
               /\ state["answer"] = NoChainsFound
               /\ state["synthesized_context"] = NoContextFound
          ELSE /\ Cardinality(CallsOf("synthesize")) = 1
               /\ node = "END" =>
                     /\ remote[Len(remote)] = Called("synthesize", "ok", state["answer"])
                     /\ state["answer"] \in SynthesisResponses
    /\ ~LastEntered("generate") => CallsOf("synthesize") = {}

\* a run ended with the fixed message and without a generation call, after
\* passes that found nothing
C17_Witness ==
    /\ node = "END"
    /\ state["retrieved_chunks"] = <<>>
    /\ state["answer"] = NoChainsFound
    /\ CallsOf("synthesize") = {}
    /\ CallsOf("index_query") # {}

\* C20 (as stated): no failure of a remote call leaves run_retrieval as an
\* exception
C20_NoFaultEscapes == node # "raised" /\ fault = PyNone

\* ------------------------------------------------------- get_pinecone_index
\* The calls of get_pinecone_index made by one process, from search_vectors
\* (line 55) and from search_single_query (line 105), in any sequence.  The
\* retriever runs on one thread, so the calls do not overlap.

\* the client object the k-th construction creates
Client(k) == [client |-> k]

\* the constructions completed so far
Constructions == {k \in 1 .. Len(index_log) : index_log[k].constructed}

NeedsConstructionAlways == TRUE

\* line 26: if _pinecone_index is None
NeedsConstruction == pinecone_index = PyNone

IndexInit ==
    /\ pinecone_index = PyNone
    /\ index_log = <<>>
    /\ entered_with = <<>>
    /\ parser = NoParse
    /\ merger = NoMerge
    /\ node = "none"
    /\ state = <<>>
    /\ all_queries = <<>>
    /\ all_matches = <<>>
    /\ qi = 0
    /\ index_returned = {}
    /\ max_iterations = MAX_ITERATIONS
    /\ trace = <<>>
    /\ remote = <<>>
    /\ fault = PyNone
    /\ dpc = "none"
    /\ messages_list = <<>>
    /\ model_func = "gpt5"
    /\ fallback_model = "claude_sonnet"
    /\ max_concurrent = 1
    /\ max_retries = 0
    /\ semaphore = 0
    /\ waiters = <<>>
    /\ task = <<>>
    /\ overtaken = FALSE
    /\ raised = PyNone
    /\ summary = NoSummary
    /\ returned = <<>>

\* lines 23-29: the client is built and stored when there is none (or the
\* construction raises and nothing is stored), and the stored client is
\* returned
get_pinecone_index(caller) ==
    /\ Len(index_log) < MaxIndexCalls
    /\ IF NeedsConstruction
       THEN \/ LET new == Client(Cardinality(Constructions) + 1)
               IN  /\ pinecone_index' = new
                   /\ index_log' = Append(index_log, [caller |-> caller, constructed |-> TRUE,
                                                      ret |-> new])
            \/ /\ index_log' = Append(index_log, [caller |-> caller, constructed |-> FALSE,
                                                  ret |-> PyNone])
               /\ UNCHANGED pinecone_index
       ELSE /\ index_log' = Append(index_log, [caller |-> caller, constructed |-> FALSE,
                                               ret |-> pinecone_index])
            /\ UNCHANGED pinecone_index
    /\ UNCHANGED <<dvars, svars, gvars, pvars, entered_with>>

\* vector_search.py line 55
SearchVectorsGetsIndex == get_pinecone_index("search_vectors")

\* vector_search.py line 105
SearchSingleQueryGetsIndex == get_pinecone_index("search_single_query")

IndexNext ==
    \/ SearchVectorsGetsIndex
    \/ SearchSingleQueryGetsIndex

SpecIndex == IndexInit /\ [][IndexNext]_vars

\* C21: no client exists before a get_pinecone_index call has built one; over
\* the calls of the process at most one client is built, and every call that
\* returns returns that client
C21_LazySingleton ==
    /\ Constructions = {} => pinecone_index = PyNone
    /\ Cardinality(Constructions) <= 1
    /\ \A k \in 1 .. Len(index_log) :
          index_log[k].ret # PyNone =>
              /\ index_log[k].ret = pinecone_index
              /\ \E c \in Constructions : c <= k /\ index_log[c].ret = index_log[k].ret

\* a first call whose construction raised, then a call from search_vectors
\* that built the client, then calls from both callers that got the same one
C21_Witness ==
    /\ Len(index_log) >= 4
    /\ index_log[1].ret = PyNone
    /\ index_log[2].constructed
    /\ index_log[2].caller = "search_vectors"
    /\ \E j, k \in 3 .. Len(index_log) :
          /\ index_log[j].caller = "search_vectors"
          /\ index_log[k].caller = "search_single_query"
          /\ index_log[j].ret = index_log[2].ret
          /\ index_log[k].ret = index_log[2].ret

\* --------------------------------------------- dispatcher properties (cont.)

\* C22: a blank result (None, empty, whitespace only) of a call is a failed
\* call: the task goes on to its next attempt, its backoff or its fallback
\* after a blank primary result, and fails after a blank fallback result, as
\* it does after an exception; so every entry of the returned list that is
\* not None is a non-blank text
C22_BlankIsFailure ==
    /\ \A i \in Tasks :
          /\ task[i].last_error = Str(<<"Empty response">>) =>
                task[i].pc \in {"sleep", "primary", "fallback"}
          /\ \A k \in 1 .. Len(Calls(i)) - 1 : Calls(i)[k].out = "failed"
          /\ (Finished(i) /\ Calls(i)[Len(Calls(i))].out \in {"blank", "error"}) =>
                task[i].ret.result = PyNone
          /\ (Finished(i) /\ task[i].ret.result # PyNone) =>
                \E k \in DOMAIN task[i].ret.result.str : task[i].ret.result.str[k] # " "
    /\ dpc = "returned" =>
          \A i \in Tasks : returned[i] # PyNone =>
              \E k \in DOMAIN returned[i].str : returned[i].str[k] # " "

\* a batch returned with a task that succeeded after a failed primary call,
\* and a task that failed on a blank fallback result
C22_Witness ==
    /\ dpc = "returned"
    /\ \E i \in Tasks :
          /\ returned[i] # PyNone
          /\ Len(Calls(i)) >= 2
    /\ \E j \in Tasks :
          /\ Calls(j)[Len(Calls(j))].out = "blank"
          /\ returned[j] = PyNone

\* ------------------------------------------------ search properties (cont.)

\* C23: after a search pass needs_refinement is true exactly when
\* retrieved_chunks holds fewer than 3 chunks: an empty list sets it, 3 or
\* more chunks clear it, whatever the flag, the chunks and the pass count the
\* pass was entered with
C23_NeedsRefinementBelowThree ==
    node = "searched" =>
        /\ state["needs_refinement"] = (Len(state["retrieved_chunks"]) < 3)
        /\ state["retrieved_chunks"] = <<>> => state["needs_refinement"]
        /\ Len(state["retrieved_chunks"]) >= 3 => ~state["needs_refinement"]

\* a refinement pass entered with the flag set that found exactly 3 chunks and
\* cleared it
C23_Witness ==
    /\ node = "searched"
    /\ "needs_refinement" \in DOMAIN entered_with
    /\ entered_with["needs_refinement"]
    /\ Len(state["retrieved_chunks"]) = 3
    /\ ~state["needs_refinement"]

\* ------------------------------------------------- graph properties (cont.)

C25_MarkersAnyCaseAnyEmphasis ==
    parser.pc = "done" =>
        LET full == FullItems(parser.items, 1)
            out == parser.ret.layered_results
        IN  /\ Len(out) = Len(full)
            /\ \A k \in 1 .. Len(full) : IsVariantOf(out[k], full[k])

\* ------------------------------------------------ answer generation

\* C26: generate_answer formats the first MAX_CHUNKS_FOR_ANSWER entries of
\* retrieved_chunks (all of them when there are fewer), one block per chunk
\* in the order of the list, which is the order of non-increasing score, and
\* returns the state with retrieved_chunks as it was: the cap shortens the
\* context only
C26_CapOnContextOnly ==
    [][ (node = "generate" /\ node' = "END") =>
          LET cs == state["retrieved_chunks"]
              m == Min(Len(cs), MAX_CHUNKS_FOR_ANSWER)
              context == state'["synthesized_context"]
          IN  /\ state'["retrieved_chunks"] = cs
              /\ state'["retrieval_scores"] = state["retrieval_scores"]
              /\ IF m = 0 THEN context = NoContextFound
                 ELSE /\ Len(context.str) = 5 * m - 1
                      /\ \A k \in 1 .. m :
                            /\ context.str[5 * k - 3] = k
                            /\ context.str[5 * k - 2] = cs[k].metadata
                            /\ context.str[5 * k - 1] = cs[k].score
                      /\ \A k \in 1 .. m - 1 : cs[k].score >= cs[k + 1].score ]_vars

\* a state with one chunk more than the cap went through generate: the
\* context holds the first MAX_CHUNKS_FOR_ANSWER chunks, the last of them
\* with a higher score than the chunk left out, and the state still holds all
C26_Witness ==
    /\ node = "END"
    /\ "synthesized_context" \in DOMAIN state
    /\ Len(state["retrieved_chunks"]) = MAX_CHUNKS_FOR_ANSWER + 1
    /\ Len(state["synthesized_context"].str) = 5 * MAX_CHUNKS_FOR_ANSWER - 1
    /\ state["retrieved_chunks"][MAX_CHUNKS_FOR_ANSWER].score
          > state["retrieved_chunks"][MAX_CHUNKS_FOR_ANSWER + 1].score

\* ------------------------------------------------ refinement passes

\* C27: query processing entered with iteration_count >= 1 makes no remote
\* call, sets processed_query to the original query and leaves every other
\* field of the state as it was (query_variations, query_type,
\* retrieved_chunks, needs_refinement and iteration_count among them), and
\* goes on to search; and once the first query processing has run no step
\* changes the query list a search pass issues, so every refinement pass
\* issues the query list of the first pass
C27_RefinementKeepsQueries ==
    [][ /\ (/\ node = "process_query"
            /\ state["iteration_count"] >= 1
            /\ trace' # trace)
           => /\ remote' = remote
              /\ fault' = fault
              /\ node' = "search"
              /\ DOMAIN state' = DOMAIN state
              /\ state'["processed_query"] = state["query"]
              /\ \A f \in DOMAIN state \ {"processed_query"} : state'[f] = state[f]
              /\ AllQueries(state') = AllQueries(state)
        /\ trace # <<>> => AllQueries(state') = AllQueries(state) ]_vars

\* a second search pass is about to run after a refinement query processing:
\* one classification and one expansion call were made in the run, and the
\* variant of the first pass is still in the query list
C27_Witness ==
    /\ node = "search"
    /\ trace = <<"process_query", "search", "process_query">>
    /\ Cardinality(CallsOf("classify")) = 1
    /\ Cardinality(CallsOf("expand")) = 1
    /\ state["iteration_count"] = 1
    /\ Len(AllQueries(state)) = 2

\* --------------------------------------------- dispatcher summary

\* C28 (as stated): the three counts of the summary add up to the number of
\* tasks, whatever the executor names, equal names included: each task is a
\* primary success, a fallback success or a failure, and is counted once
C28_SummaryPartitions ==
    dpc = "returned" =>
        /\ summary.success_primary + summary.success_fallback + summary.failed
              = Len(messages_list)
        /\ summary.failed = Cardinality({i \in Tasks : returned[i] = PyNone})

\* ------------------------------------------------ frame of a search pass

\* C29: the state a search pass returns holds, as retrieved_chunks, the
\* chunks its own queries returned at or above the threshold and no other (a
\* chunk of an earlier pass that this pass did not return is gone), as
\* retrieval_scores their scores, and the iteration count it was entered with
\* plus 1; every other field is the field of the state the pass was entered
\* with
C29_PassReplacesChunks ==
    node = "searched" =>
        LET cs == state["retrieved_chunks"]
            written == {"retrieved_chunks", "retrieval_scores", "needs_refinement",
                        "iteration_count"}
        IN  /\ {cs[k].id : k \in 1 .. Len(cs)} = {id \in ChunkIds : ReturnedScores(id) # {}}
            /\ state["retrieval_scores"] = [k \in 1 .. Len(cs) |-> cs[k].score]
            /\ state["iteration_count"] = entered_with["iteration_count"] + 1
            /\ DOMAIN state = DOMAIN entered_with \cup written
            /\ \A f \in DOMAIN entered_with \ written : state[f] = entered_with[f]

\* a refinement pass entered with chunks c1 and c3: the index returned c2
\* above the threshold and c1 not at all, and the state holds c2 only
C29_Witness ==
    /\ node = "searched"
    /\ "retrieved_chunks" \in DOMAIN entered_with
    /\ \E k \in 1 .. Len(entered_with["retrieved_chunks"]) :
          entered_with["retrieved_chunks"][k].id = "c1"
    /\ \A x \in index_returned : x.id # "c1"
    /\ Len(state["retrieved_chunks"]) = 1
    /\ state["retrieved_chunks"][1].id = "c2"
    /\ state["iteration_count"] = 2

\* --------------------------------------------- dispatcher termination

\* C30: when every remote call returns, a call of the dispatcher with known
\* executor names returns: in the end every task has produced its tuple, the
\* result list is returned, no task waits and every slot is free again,
\* whether the tasks succeeded or failed on blanks or on exceptions.  And as
\* long as a task is inside a remote call (or a backoff sleep) it holds its
\* slot and the dispatcher has not returned
C30_ReturnsAndReleases ==
    /\ [](\A i \in Tasks :
             Holding(i) => /\ dpc # "returned"
                           /\ semaphore = max_concurrent - Cardinality(Holders)
                           /\ semaphore < max_concurrent)
    /\ (dpc = "called" /\ NamesKnown)
          ~> (/\ dpc = "returned"
              /\ \A i \in Tasks : Finished(i)
              /\ Len(returned) = Len(messages_list)
              /\ Holders = {}
              /\ waiters = <<>>
              /\ semaphore = max_concurrent)

\* a batch with more tasks than slots returned with all slots free: the
\* second task had waited for the slot; one task succeeded after a backoff
\* sleep and the other failed on a fallback exception
C30_Witness ==
    /\ dpc = "returned"
    /\ semaphore = max_concurrent
    /\ Len(messages_list) > max_concurrent
    /\ \E i, j \in Tasks :
          /\ returned[i] # PyNone
          /\ Len(Calls(i)) = 2
          /\ Calls(i)[2].by = "primary"
          /\ Calls(j)[Len(Calls(j))].out = "error"
          /\ returned[j] = PyNone

====
